---- MODULE Spec2Model ----
(***************************************************************************)
(* Model of scripts/publish_content.py: the publish pipeline that walks a  *)
(* content tree (units -> episodes -> activities) and writes immutable     *)
(* manifests to an object store (S3) and live pointer records to a         *)
(* key-value registry (DynamoDB), the Activity pointers under a version    *)
(* guard.  Several publish runs may be active at once; every store call is *)
(* one atomic step of the run that makes it.                               *)
(***************************************************************************)
EXTENDS Integers, Sequences, FiniteSets, TLC

(***************************************************************************)
(* Bounds of the model.                                                    *)
(***************************************************************************)
\* publish runs started in one behaviour of concurrent publishers (Spec)
MaxRuns == 2
\* publish runs started in one behaviour of a single publisher (SpecSeq)
MaxSeqRuns == 3
\* largest value of the wall clock read by int(time.time())
MaxClock == 1
\* publish runs started in one behaviour over the trees of SpecIds
MaxIdRuns == 2

(***************************************************************************)
(* State.                                                                  *)
(*   reg    the live registry: <<PK, SK>> -> item                          *)
(*   objs   the object store: key -> body                                  *)
(*   run    per publisher process, the run it is in: its tree, dry flag,   *)
(*          run number n and its place in _publish (pc and the indices of  *)
(*          the unit, episode and activity loops)                          *)
(*   nruns  runs started so far                                            *)
(*   now    the wall clock                                                 *)
(*   last   the most recent store call: who made it, what it carried, what *)
(*          was at the key before it, and how it ended                     *)
(*   snap   what the previous run of the process left in the stores when   *)
(*          it printed "publish complete" (kept by SpecSeq only)           *)
(*   hist   what the stores held when the current run of the process was   *)
(*          started and, if its previous run was cut short by a store      *)
(*          failure, that run and what the stores held when it was started *)
(*          (kept by SpecSeq only)                                         *)
(***************************************************************************)
VARIABLES reg, objs, run, nruns, now, last, snap, hist

vars == <<reg, objs, run, nruns, now, last, snap, hist>>

(***************************************************************************)
(* Python values.                                                          *)
(***************************************************************************)
SEP == "#"

\* Python's None (a document field that is absent and has no default)
None == "<None>"

\* str(v) as an f-string renders it
Str(v) == IF v = None THEN "None" ELSE v

\* truthiness of an optional string, as `x or y` tests it
Truthy(v) == v # None /\ v # ""

Or(a, b) == IF Truthy(a) THEN a ELSE b

\* dict.get(k, d) on a parsed document
Get(doc, k, d) == IF k \in DOMAIN doc THEN doc[k] ELSE d

\* the mapping a YAML file with no fields parses to (`safe_load(f) or {}`)
EmptyDoc == [k \in {} |-> None]

\* a YAML number: an integer, or a float with one decimal digit
YInt(n) == [kind |-> "int", n |-> n, frac |-> 0]
YFloat(n, d) == [kind |-> "float", n |-> n, frac |-> d]

\* int(v) on a non-negative YAML number: truncation
PyInt(v) == IF v.kind = "float" THEN v.n ELSE v.n

(***************************************************************************)
(* Questions are opaque ordered mappings: a sequence of <<field, value>>   *)
(* pairs in the order the document gives them.                             *)
(***************************************************************************)
Q1 == << <<"prompt", "p1">>, <<"answer", "x">> >>
Q1r == << <<"answer", "x">>, <<"prompt", "p1">> >>
Q2 == << <<"prompt", "p2">>, <<"answer", "y">> >>

\* lexicographic rank of the question field names
KeyRank == [k \in {"answer", "prompt"} |-> IF k = "answer" THEN 1 ELSE 2]

(***************************************************************************)
(* json.dumps.  A JSON object is written from a sequence of <<key, text>>  *)
(* items, text being the serialised value; itemSep and keySep are the      *)
(* `separators` of the call.                                               *)
(***************************************************************************)
JsonStr(v) == IF v = None THEN "null" ELSE "\"" \o v \o "\""

RECURSIVE JoinItems(_, _, _)
JoinItems(items, itemSep, keySep) ==
  IF items = <<>> THEN ""
  ELSE LET one == "\"" \o items[1][1] \o "\"" \o keySep \o items[1][2]
       IN IF Len(items) = 1 THEN one
          ELSE one \o itemSep \o JoinItems(Tail(items), itemSep, keySep)

RECURSIVE JoinTexts(_, _)
JoinTexts(texts, itemSep) ==
  IF texts = <<>> THEN ""
  ELSE IF Len(texts) = 1 THEN texts[1]
  ELSE texts[1] \o itemSep \o JoinTexts(Tail(texts), itemSep)

\* sort_keys=True on a question mapping: its items in key order
RECURSIVE SortItems(_)
SortItems(items) ==
  IF items = <<>> THEN <<>>
  ELSE LET i == CHOOSE i \in 1..Len(items) :
                  \A j \in 1..Len(items) : KeyRank[items[i][1]] <= KeyRank[items[j][1]]
           rest == [j \in 1..(Len(items) - 1) |-> IF j < i THEN items[j] ELSE items[j + 1]]
       IN <<items[i]>> \o SortItems(rest)

DumpQuestion(q, itemSep, keySep, sortKeys) ==
  LET items == IF sortKeys THEN SortItems(q) ELSE q
  IN "{" \o JoinItems([i \in 1..Len(items) |-> <<items[i][1], JsonStr(items[i][2])>>],
                      itemSep, keySep) \o "}"

\* the manifest's fields in the order _build_manifest inserts them, and sorted
ManifestKeys ==
  <<"unitId", "episodeId", "activityId", "activityFqId", "title", "version",
    "locale", "total", "questions">>
ManifestKeysSorted ==
  <<"activityFqId", "activityId", "episodeId", "locale", "questions", "title",
    "total", "unitId", "version">>

DumpField(m, k, itemSep, keySep, sortKeys) ==
  IF k \in {"version", "total"} THEN ToString(m[k])
  ELSE IF k = "questions"
       THEN "[" \o JoinTexts([i \in 1..Len(m.questions) |->
                                DumpQuestion(m.questions[i], itemSep, keySep, sortKeys)],
                             itemSep) \o "]"
       ELSE JsonStr(m[k])

\* json.dumps(manifest, separators=(itemSep, keySep), sort_keys=sortKeys)
DumpManifest(m, itemSep, keySep, sortKeys) ==
  LET keys == IF sortKeys THEN ManifestKeysSorted ELSE ManifestKeys
  IN "{" \o JoinItems([i \in 1..Len(keys) |->
                         <<keys[i], DumpField(m, keys[i], itemSep, keySep, sortKeys)>>],
                      itemSep, keySep) \o "}"

\* _sha256_short: the digest of the canonical (sorted-key, compact) serialisation.
\* SHA-256 is taken to be collision-free on the documents of the model, so the
\* digest is represented by the text it is computed from.
Sha256Short(obj) == "sha:" \o DumpManifest(obj, ",", ":", TRUE)

(***************************************************************************)
(* The content tree on disk.  A directory listing is a set of entries; an  *)
(* optional file or directory is a sequence of length 0 (absent) or 1.     *)
(*   root entry:     [name, isDir, inDir, sibling, episodes]               *)
(*   episode entry:  [name, isDir, doc, activities]                        *)
(*   activity entry: [name, ext, isFile, doc]   (name is the file's stem)  *)
(***************************************************************************)
\* lexicographic rank of the entry names of the model
NameRank ==
  [n \in {"a_1", "a_2", "e_1", "e_2", "notes", "u_1", "u_2"} |->
     CASE n = "a_1" -> 1 [] n = "a_2" -> 2 [] n = "e_1" -> 3 [] n = "e_2" -> 4
       [] n = "notes" -> 5 [] n = "u_1" -> 6 [] n = "u_2" -> 7]

\* str.startswith on the entry names of the model
StartsWith(n, prefix) ==
  \/ prefix = "u_" /\ n \in {"u_1", "u_2"}
  \/ prefix = "e_" /\ n \in {"e_1", "e_2"}
  \/ prefix = "a_" /\ n \in {"a_1", "a_2"}

\* SEP in v, on the ids the documents of the model declare
HasSep(v) == v \in {"e_1#x", "x#a_1"}

\* sorted(...) of a set of entries with distinct names
RECURSIVE Sorted(_)
Sorted(entries) ==
  IF entries = {} THEN <<>>
  ELSE LET m == CHOOSE x \in entries :
                  \A y \in entries : NameRank[x.name] <= NameRank[y.name]
       IN <<m>> \o Sorted(entries \ {m})

\* _load_yaml: the parsed mapping of a document
LoadYaml(doc) == doc

\* _discover_unit_yaml: the document found, or <<>> when _die is called
DiscoverUnitYaml(unit_dir) ==
  IF unit_dir.inDir # <<>> THEN unit_dir.inDir
  ELSE IF unit_dir.sibling # <<>> THEN unit_dir.sibling
  ELSE <<>>

\* a missing episode document is read as an empty one
DiscoverEpisodeYamlLenient(ep_dir) ==
  IF ep_dir.doc # <<>> THEN ep_dir.doc ELSE <<EmptyDoc>>

\* _discover_episode_yaml: the document found, or <<>> when _die is called
DiscoverEpisodeYaml(ep_dir) == IF ep_dir.doc # <<>> THEN ep_dir.doc ELSE <<>>

\* _list_activity_yaml
ListActivityYaml(ep_dir) ==
  IF ep_dir.activities = <<>> THEN <<>>
  ELSE Sorted({f \in ep_dir.activities[1] :
                 StartsWith(f.name, "a_") /\ f.ext = "yaml" /\ f.isFile})

\* the unit directories _publish iterates over
UnitDirs(tree) ==
  Sorted({d \in tree.entries : d.isDir /\ StartsWith(d.name, "u_")})

\* the episode directories of a unit whose episodes folder exists
EpisodeDirs(unit_dir) ==
  Sorted({d \in unit_dir.episodes[1] : d.isDir /\ StartsWith(d.name, "e_")})

(***************************************************************************)
(* Manifest and live records.                                              *)
(***************************************************************************)
\* _build_manifest
BuildManifest(unit_id, episode_id, a_yaml) ==
  LET aid == Get(a_yaml, "id", None)
      title == Get(a_yaml, "title", aid)
      version == PyInt(Get(a_yaml, "version", YInt(1)))
      locale == Get(a_yaml, "locale", "en-US")
      questions == Get(a_yaml, "questions", <<>>)
  IN [unitId |-> unit_id,
      episodeId |-> episode_id,
      activityId |-> aid,
      activityFqId |-> unit_id \o "/" \o episode_id \o "/" \o Str(aid),
      title |-> title,
      version |-> version,
      locale |-> locale,
      total |-> Len(questions),
      questions |-> questions]

\* the key carries the time of the run where the content hash belongs
S3KeyStamped(s3_prefix, unit_id, episode_id, activity_id, manifest, mhash) ==
  s3_prefix \o "/" \o unit_id \o "/" \o episode_id \o "/" \o activity_id
    \o "/v" \o ToString(manifest.version) \o "/manifest-" \o ToString(now) \o ".json"

\* the manifest storage key of _publish
S3Key(s3_prefix, unit_id, episode_id, activity_id, manifest, mhash) ==
  s3_prefix \o "/" \o unit_id \o "/" \o episode_id \o "/" \o activity_id
    \o "/v" \o ToString(manifest.version) \o "/manifest-" \o mhash \o ".json"

\* the UNIT LIVE item of _publish
UnitItem(unit_dir, unit_yaml, t) ==
  LET unit_id == Or(Get(unit_yaml, "id", None), unit_dir.name)
      eps == IF unit_dir.episodes = <<>> THEN <<>> ELSE EpisodeDirs(unit_dir)
  IN [PK |-> "UNIT#" \o unit_id,
      SK |-> "LIVE",
      entityType |-> "UNIT_LIVE",
      title |-> Get(unit_yaml, "title", unit_id),
      content |-> Get(unit_yaml, "content", ""),
      episodeIds |-> [i \in 1..Len(eps) |-> eps[i].name],
      episodeFqIds |-> [i \in 1..Len(eps) |-> unit_id \o SEP \o eps[i].name],
      updatedAt |-> t]

\* the EPISODE LIVE item of _publish
EpisodeItem(unit_id, ep_dir, ep_yaml, t) ==
  LET episode_id == Or(Get(ep_yaml, "id", None), ep_dir.name)
      acts == ListActivityYaml(ep_dir)
  IN [PK |-> "EPISODE#" \o unit_id \o SEP \o episode_id,
      SK |-> "LIVE",
      entityType |-> "EPISODE_LIVE",
      unitId |-> unit_id,
      episodeId |-> episode_id,
      title |-> Get(ep_yaml, "title", episode_id),
      activityIds |-> [i \in 1..Len(acts) |-> acts[i].name],
      activityFqIds |-> [i \in 1..Len(acts) |->
                           unit_id \o SEP \o episode_id \o SEP \o acts[i].name],
      updatedAt |-> t]

\* the ACTIVITY LIVE item of _publish
ActivityItem(bucket, s3_key, unit_id, episode_id, a_path, a_yaml, manifest, t) ==
  LET activity_id == Or(Get(a_yaml, "id", None), a_path.name)
  IN [PK |-> "ACTIVITY#" \o unit_id \o SEP \o episode_id \o SEP \o activity_id,
      SK |-> "LIVE",
      entityType |-> "ACTIVITY_LIVE",
      unitId |-> unit_id,
      episodeId |-> episode_id,
      activityId |-> activity_id,
      activityFqid |-> unit_id \o SEP \o episode_id \o SEP \o activity_id,
      title |-> Get(a_yaml, "title", activity_id),
      locale |-> Get(manifest, "locale", "en-US"),
      manifestS3Key |-> "s3://" \o bucket \o "/" \o s3_key,
      totalQuestions |-> manifest.total,
      version |-> PyInt(Get(a_yaml, "version", YInt(1))),
      updatedAt |-> t]

(***************************************************************************)
(* Process configuration (main) and the content trees of the model.        *)
(***************************************************************************)
Bucket == "liwanag-content-bucket"
Prefix == "activities"

ActFile(stem, doc) == [name |-> stem, ext |-> "yaml", isFile |-> TRUE, doc |-> doc]
EpDir(name, doc, activities) ==
  [name |-> name, isDir |-> TRUE, doc |-> doc, activities |-> activities]
RootDir(name, inDir, sibling, episodes) ==
  [name |-> name, isDir |-> TRUE, inDir |-> inDir, sibling |-> sibling,
   episodes |-> episodes]

UnitDoc == [id |-> "u_1", title |-> "Intro"]
EpisodeDoc == [title |-> "Basics"]
A1v1 == ActFile("a_1", [id |-> "a_1", title |-> "A1", version |-> YInt(1),
                        questions |-> <<Q1, Q2>>])
A1v1r == ActFile("a_1", [id |-> "a_1", title |-> "A1", version |-> YInt(1),
                         questions |-> <<Q1r, Q2>>])
A1v2 == ActFile("a_1", [id |-> "a_1", title |-> "A1", version |-> YFloat(2, 0),
                        questions |-> <<Q1, Q2>>])
A2v3 == ActFile("a_2", [id |-> "a_2", version |-> YInt(3)])
\* a_1 of A1v1 under another title and locale
A1v1t == ActFile("a_1", [id |-> "a_1", title |-> "Warm-up", version |-> YInt(1),
                         locale |-> "fil-PH", questions |-> <<Q1, Q2>>])
\* a_1.yaml declaring an id that is not the file's stem
A1quiz == ActFile("a_1", [id |-> "quiz", title |-> "Quiz", version |-> YInt(1),
                          questions |-> <<Q1>>])
\* a_1.yaml declaring neither id nor title
A1bare == ActFile("a_1", [version |-> YInt(1), questions |-> <<Q1>>])
\* a_1.yaml files whose declared ids do or do not hold the separator
A1plain == ActFile("a_1", [id |-> "a_1", title |-> "A1", version |-> YInt(1)])
A1sep == ActFile("a_1", [id |-> "x#a_1", title |-> "A1", version |-> YInt(1)])
Stray == [name |-> "notes", ext |-> "txt", isFile |-> TRUE, doc |-> EmptyDoc]

OneUnit(acts) ==
  [exists |-> TRUE,
   entries |-> {RootDir("u_1", <<UnitDoc>>, <<>>,
                        <<{EpDir("e_1", <<EpisodeDoc>>, <<acts>>)}>>)}]

TreeNames == {"base", "v2", "reorder", "noepdoc", "nounit", "noroot"}

\* trees whose documents declare their ids, titles and locales in other ways
IdTreeNames == {"base", "retitle", "renamed", "noid", "sep"}

AllTreeNames == TreeNames \cup IdTreeNames

\* the tree a run finds at its root path
TreeOf(name) ==
  CASE name = "base" -> OneUnit({A1v1, A2v3})
    [] name = "v2" -> OneUnit({A1v2})
    [] name = "reorder" -> OneUnit({A1v1r, Stray})
    [] name = "noepdoc" ->
         [exists |-> TRUE,
          entries |-> {RootDir("u_1", <<UnitDoc>>, <<>>,
                               <<{EpDir("e_1", <<EpisodeDoc>>, <<>>),
                                  EpDir("e_2", <<>>, <<{A1v1}>>)}>>)}]
    [] name = "nounit" ->
         [exists |-> TRUE,
          entries |-> {RootDir("u_1", <<>>, <<UnitDoc>>, <<>>),
                       RootDir("u_2", <<>>, <<>>, <<>>),
                       RootDir("notes", <<>>, <<>>, <<>>)}]
    [] name = "noroot" -> [exists |-> FALSE, entries |-> {}]
    [] name = "retitle" -> OneUnit({A1v1t})
    [] name = "renamed" ->
         [exists |-> TRUE,
          entries |-> {RootDir("u_1", <<UnitDoc>>, <<>>,
                               <<{EpDir("e_1", <<[id |-> "intro", title |-> "Basics"]>>,
                                        <<{A1quiz}>>)}>>)}]
    [] name = "noid" -> OneUnit({A1bare})
    [] name = "sep" ->
         [exists |-> TRUE,
          entries |-> {RootDir("u_1", <<UnitDoc>>, <<>>,
                               <<{EpDir("e_1", <<[id |-> "e_1#x"]>>, <<{A1plain}>>),
                                  EpDir("e_2", <<[id |-> "e_1"]>>, <<{A1sep}>>)}>>)}]

(***************************************************************************)
(* The trees are fixed while a run walks them, so what _publish computes   *)
(* from a tree alone is tabulated once: the sorted unit directories of     *)
(* each tree and, for each activity document a walk can reach (its place   *)
(* <<tree, ui, ei, ai>>), the manifest, its storage key and its body.      *)
(* (f @@ <<>> is f, held by TLC as a table instead of being re-evaluated   *)
(* at each application.)                                                   *)
(***************************************************************************)
UnitDirsOf == [t \in AllTreeNames |-> UnitDirs(TreeOf(t))] @@ <<>>

UnitAt(r) == UnitDirsOf[r.tree][r.ui]
EpisodeAt(r) == EpisodeDirs(UnitAt(r))[r.ei]
ActivityAt(r) == ListActivityYaml(EpisodeAt(r))[r.ai]

UnitIdAt(r) ==
  Or(Get(LoadYaml(DiscoverUnitYaml(UnitAt(r))[1]), "id", None), UnitAt(r).name)
EpisodeIdAt(r) ==
  Or(Get(LoadYaml(DiscoverEpisodeYaml(EpisodeAt(r))[1]), "id", None), EpisodeAt(r).name)
ActivityIdAt(r) == Or(Get(LoadYaml(ActivityAt(r).doc), "id", None), ActivityAt(r).name)

Where(r) == <<r.tree, r.ui, r.ei, r.ai>>
At(pl) == [tree |-> pl[1], ui |-> pl[2], ei |-> pl[3], ai |-> pl[4]]

\* the walk reaches the activity loop at this place
Reached(pl) ==
  LET r == At(pl)
  IN /\ r.ui <= Len(UnitDirsOf[r.tree])
     /\ DiscoverUnitYaml(UnitAt(r)) # <<>>
     /\ UnitAt(r).episodes # <<>>
     /\ r.ei <= Len(EpisodeDirs(UnitAt(r)))
     /\ DiscoverEpisodeYaml(EpisodeAt(r)) # <<>>
     /\ r.ai <= Len(ListActivityYaml(EpisodeAt(r)))

Indices == 1..Cardinality(DOMAIN NameRank)
ActPlaces == {pl \in AllTreeNames \X Indices \X Indices \X Indices : Reached(pl)}

ManifestOf ==
  [pl \in ActPlaces |->
     BuildManifest(UnitIdAt(At(pl)), EpisodeIdAt(At(pl)), LoadYaml(ActivityAt(At(pl)).doc))]
  @@ <<>>

S3KeyOf ==
  [pl \in ActPlaces |->
     S3Key(Prefix, UnitIdAt(At(pl)), EpisodeIdAt(At(pl)), ActivityIdAt(At(pl)),
           ManifestOf[pl], Sha256Short(ManifestOf[pl]))] @@ <<>>

BodyOf ==
  [m \in {ManifestOf[pl] : pl \in ActPlaces} |-> DumpManifest(m, ", ", ": ", FALSE)]
  @@ <<>>

\* json.dumps(obj, ensure_ascii=False) of a manifest
JsonDumps(obj) == BodyOf[obj]

ManifestAt(r) == ManifestOf[Where(r)]
S3KeyAt(r) == S3KeyOf[Where(r)]

(***************************************************************************)
(* The two stores.  A table maps <<PK, SK>> to an item, a bucket maps a    *)
(* key to a body; both are functions whose domain is the keys present.     *)
(***************************************************************************)
\* a put that drops whatever else the store held
PutPruning(f, k, v) == [x \in {k} |-> v]

Put(f, k, v) == [x \in DOMAIN f \cup {k} |-> IF x = k THEN v ELSE f[x]]

ItemKey(item) == <<item.PK, item.SK>>

\* the condition left out: every put is accepted
ConditionDropped(table, item) == TRUE

\* the comparison turned round: #v >= :newv
ConditionReversed(table, item) ==
  \/ ItemKey(item) \notin DOMAIN table
  \/ "version" \notin DOMAIN table[ItemKey(item)]
  \/ table[ItemKey(item)].version >= item.version

\* the comparison made strict: #v < :newv
ConditionStrict(table, item) ==
  \/ ItemKey(item) \notin DOMAIN table
  \/ "version" \notin DOMAIN table[ItemKey(item)]
  \/ table[ItemKey(item)].version < item.version

\* "attribute_not_exists(#v) OR #v <= :newv" evaluated on the item at the key
ConditionHolds(table, item) ==
  \/ ItemKey(item) \notin DOMAIN table
  \/ "version" \notin DOMAIN table[ItemKey(item)]
  \/ table[ItemKey(item)].version <= item.version

\* an existing item is never overwritten by an unguarded put
DdbPutLiveCreateOnly(table, item, guard_version, dry, fault) ==
  IF dry THEN [table |-> table, result |-> "dry", conditional |-> FALSE]
  ELSE LET conditional == guard_version /\ "version" \in DOMAIN item
       IN IF fault
          THEN [table |-> table, result |-> "raise", conditional |-> conditional]
          ELSE IF ItemKey(item) \in DOMAIN table /\ ~conditional
          THEN [table |-> table, result |-> "skip", conditional |-> conditional]
          ELSE [table |-> Put(table, ItemKey(item), item), result |-> "ok",
                conditional |-> conditional]

\* every ClientError is swallowed as if it were a failed condition
DdbPutLiveSwallow(table, item, guard_version, dry, fault) ==
  IF dry THEN [table |-> table, result |-> "dry", conditional |-> FALSE]
  ELSE LET conditional == guard_version /\ "version" \in DOMAIN item
       IN IF fault \/ (conditional /\ ~ConditionHolds(table, item))
          THEN [table |-> table, result |-> "skip", conditional |-> conditional]
          ELSE [table |-> Put(table, ItemKey(item), item), result |-> "ok",
                conditional |-> conditional]

\* a failed condition is re-raised like any other ClientError
DdbPutLiveSkipRaises(table, item, guard_version, dry, fault) ==
  IF dry THEN [table |-> table, result |-> "dry", conditional |-> FALSE]
  ELSE LET conditional == guard_version /\ "version" \in DOMAIN item
       IN IF fault \/ (conditional /\ ~ConditionHolds(table, item))
          THEN [table |-> table, result |-> "raise", conditional |-> conditional]
          ELSE [table |-> Put(table, ItemKey(item), item), result |-> "ok",
                conditional |-> conditional]

\* _ddb_put_live.  fault: the store answers with a failure other than a failed
\* condition.  result: dry (logged only), ok, skip, or raise (the exception
\* leaves the function).
DdbPutLive(table, item, guard_version, dry, fault) ==
  IF dry THEN [table |-> table, result |-> "dry", conditional |-> FALSE]
  ELSE LET conditional == guard_version /\ "version" \in DOMAIN item
       IN IF fault
          THEN [table |-> table, result |-> "raise", conditional |-> conditional]
          ELSE IF conditional /\ ~ConditionHolds(table, item)
          THEN [table |-> table, result |-> "skip", conditional |-> conditional]
          ELSE [table |-> Put(table, ItemKey(item), item), result |-> "ok",
                conditional |-> conditional]

\* the dry flag is not looked at
S3PutJsonAlways(bucket, key, obj, dry, fault) ==
  LET body == JsonDumps(obj)
  IN IF fault THEN [bucket |-> bucket, result |-> "raise", body |-> body]
     ELSE [bucket |-> Put(bucket, key, body), result |-> "ok", body |-> body]

\* a failure of put_object is swallowed and the call returns normally
S3PutJsonSwallow(bucket, key, obj, dry, fault) ==
  LET body == JsonDumps(obj)
  IN IF dry THEN [bucket |-> bucket, result |-> "dry", body |-> body]
     ELSE IF fault THEN [bucket |-> bucket, result |-> "ok", body |-> body]
     ELSE [bucket |-> Put(bucket, key, body), result |-> "ok", body |-> body]

\* _s3_put_json
S3PutJson(bucket, key, obj, dry, fault) ==
  LET body == JsonDumps(obj)
  IN IF dry THEN [bucket |-> bucket, result |-> "dry", body |-> body]
     ELSE IF fault THEN [bucket |-> bucket, result |-> "raise", body |-> body]
     ELSE [bucket |-> Put(bucket, key, body), result |-> "ok", body |-> body]

Procs == {"p1", "p2"}

EmptyStore == [k \in {} |-> None]

\* last before any store call.  The key of a call is a tuple (<<PK, SK>> or
\* <<object key>>) and what it carries a record (the item, or [body |-> text]).
NoCall ==
  [p |-> "", n |-> 0, op |-> "none", key |-> <<>>, item |-> EmptyDoc, dry |-> FALSE,
   guard |-> FALSE, conditional |-> FALSE, fault |-> FALSE, result |-> "",
   had |-> FALSE, prev |-> EmptyDoc]

NoSnap == [n |-> 0, tree |-> "noroot", reg |-> EmptyStore, objs |-> EmptyStore]

NoHist == [begun |-> [reg |-> EmptyStore, objs |-> EmptyStore], cut |-> NoSnap]

Init ==
  /\ reg = EmptyStore
  /\ objs = EmptyStore
  /\ run = [p \in Procs |-> [pc |-> "idle", tree |-> "noroot", dry |-> FALSE,
                             n |-> 0, ui |-> 0, ei |-> 0, ai |-> 0]]
  /\ nruns = 0
  /\ now = 0
  /\ last = NoCall
  /\ snap = NoSnap
  /\ hist = NoHist

Running == {"unit", "episode", "s3", "ddb"}
Ended == {"idle", "done", "died", "failed"}

(***************************************************************************)
(* The place of a run in the loops of _publish.                            *)
(***************************************************************************)
ActivityItemAt(r, t) ==
  ActivityItem(Bucket, S3KeyAt(r), UnitIdAt(r), EpisodeIdAt(r), ActivityAt(r),
               LoadYaml(ActivityAt(r).doc), ManifestAt(r), t)

\* the unit loop reaches index ui, or falls through to "publish complete"
GoUnit(r, ui) ==
  IF ui <= Len(UnitDirsOf[r.tree])
  THEN [r EXCEPT !.pc = "unit", !.ui = ui, !.ei = 0, !.ai = 0]
  ELSE [r EXCEPT !.pc = "done", !.ui = 0, !.ei = 0, !.ai = 0]

\* the episode loop of the current unit reaches index ei, or the unit is finished
GoEpisode(r, ei) ==
  IF ei <= Len(EpisodeDirs(UnitAt(r)))
  THEN [r EXCEPT !.pc = "episode", !.ei = ei, !.ai = 0]
  ELSE GoUnit(r, r.ui + 1)

\* the activity loop of the current episode reaches index ai, or the episode is finished
GoActivity(r, ai) ==
  IF ai <= Len(ListActivityYaml(EpisodeAt(r)))
  THEN [r EXCEPT !.pc = "s3", !.ai = ai]
  ELSE GoEpisode(r, r.ei + 1)

\* an uncaught exception, or _die: the process ends where it is
Abort(r, how) == [r EXCEPT !.pc = how]

\* the exit code of the process: 0 after "publish complete", 1 after _die
\* (sys.exit(1)) or an uncaught exception, -1 while there is none yet
ExitCode(r) ==
  IF r.pc = "done" THEN 0 ELSE IF r.pc \in {"died", "failed"} THEN 1 ELSE -1

\* the store faults a call can meet: none in a dry run, which makes no call
Faults(dry) == IF dry THEN {FALSE} ELSE BOOLEAN

LiveCall(p, r, item, guard, fault, res) ==
  [p |-> p, n |-> r.n, op |-> "putLive", key |-> ItemKey(item), item |-> item,
   dry |-> r.dry, guard |-> guard, conditional |-> res.conditional, fault |-> fault,
   result |-> res.result, had |-> ItemKey(item) \in DOMAIN reg,
   prev |-> IF ItemKey(item) \in DOMAIN reg THEN reg[ItemKey(item)] ELSE item]

ObjectCall(p, r, key, fault, res) ==
  [p |-> p, n |-> r.n, op |-> "putImmutable", key |-> <<key>>,
   item |-> [body |-> res.body],
   dry |-> r.dry, guard |-> FALSE, conditional |-> FALSE, fault |-> fault,
   result |-> res.result, had |-> key \in DOMAIN objs,
   prev |-> [body |-> IF key \in DOMAIN objs THEN objs[key] ELSE res.body]]

(***************************************************************************)
(* Actions.                                                                *)
(***************************************************************************)
\* time passes
Tick ==
  /\ now < MaxClock
  /\ now' = now + 1
  /\ UNCHANGED <<reg, objs, run, nruns, last>>

\* a publisher process is started on a tree: _publish up to the unit loop
Start(p, limit, launches) ==
  /\ run[p].pc \in Ended
  /\ nruns < limit
  /\ \E launch \in launches :
       LET r == [pc |-> "idle", tree |-> launch[1], dry |-> launch[2], n |-> nruns + 1,
                 ui |-> 0, ei |-> 0, ai |-> 0]
       IN run' = [run EXCEPT ![p] = IF ~TreeOf(r.tree).exists THEN Abort(r, "died")
                                    ELSE GoUnit(r, 1)]
  /\ nruns' = nruns + 1
  /\ UNCHANGED <<reg, objs, now, last>>

\* a unit without an episodes folder ends the run after its record is written
PublishUnitNeedsEpisodes(p) ==
  LET r == run[p]
      found == DiscoverUnitYaml(UnitAt(r))
  IN /\ r.pc = "unit"
     /\ IF found = <<>>
        THEN /\ run' = [run EXCEPT ![p] = Abort(r, "died")]
             /\ UNCHANGED <<reg, objs, nruns, now, last>>
        ELSE \E fault \in Faults(r.dry) :
               LET item == UnitItem(UnitAt(r), LoadYaml(found[1]), now)
                   res == DdbPutLive(reg, item, FALSE, r.dry, fault)
               IN /\ reg' = res.table
                  /\ last' = LiveCall(p, r, item, FALSE, fault, res)
                  /\ run' = [run EXCEPT ![p] =
                               IF res.result = "raise" THEN Abort(r, "failed")
                               ELSE IF UnitAt(r).episodes = <<>> THEN Abort(r, "died")
                               ELSE GoEpisode(r, 1)]
                  /\ UNCHANGED <<objs, nruns, now>>

\* one pass of the unit loop up to its episode loop: discover and load the
\* unit document, write the UNIT LIVE item
PublishUnit(p) ==
  LET r == run[p]
      found == DiscoverUnitYaml(UnitAt(r))
  IN /\ r.pc = "unit"
     /\ IF found = <<>>
        THEN /\ run' = [run EXCEPT ![p] = Abort(r, "died")]
             /\ UNCHANGED <<reg, objs, nruns, now, last>>
        ELSE \E fault \in Faults(r.dry) :
               LET item == UnitItem(UnitAt(r), LoadYaml(found[1]), now)
                   res == DdbPutLive(reg, item, FALSE, r.dry, fault)
               IN /\ reg' = res.table
                  /\ last' = LiveCall(p, r, item, FALSE, fault, res)
                  /\ run' = [run EXCEPT ![p] =
                               IF res.result = "raise" THEN Abort(r, "failed")
                               ELSE IF UnitAt(r).episodes = <<>> THEN GoUnit(r, r.ui + 1)
                               ELSE GoEpisode(r, 1)]
                  /\ UNCHANGED <<objs, nruns, now>>

\* one pass of the episode loop up to its activity loop
PublishEpisode(p) ==
  LET r == run[p]
      found == DiscoverEpisodeYaml(EpisodeAt(r))
  IN /\ r.pc = "episode"
     /\ IF found = <<>>
        THEN /\ run' = [run EXCEPT ![p] = Abort(r, "died")]
             /\ UNCHANGED <<reg, objs, nruns, now, last>>
        ELSE \E fault \in Faults(r.dry) :
               LET item == EpisodeItem(UnitIdAt(r), EpisodeAt(r), LoadYaml(found[1]), now)
                   res == DdbPutLive(reg, item, FALSE, r.dry, fault)
               IN /\ reg' = res.table
                  /\ last' = LiveCall(p, r, item, FALSE, fault, res)
                  /\ run' = [run EXCEPT ![p] =
                               IF res.result = "raise" THEN Abort(r, "failed")
                               ELSE GoActivity(r, 1)]
                  /\ UNCHANGED <<objs, nruns, now>>

\* first half of one pass of the activity loop: build, hash and store the manifest
PutManifest(p) ==
  LET r == run[p]
      manifest == ManifestAt(r)
      s3_key == S3KeyAt(r)
  IN /\ r.pc = "s3"
     /\ \E fault \in Faults(r.dry) :
          LET res == S3PutJson(objs, s3_key, manifest, r.dry, fault)
          IN /\ objs' = res.bucket
             /\ last' = ObjectCall(p, r, s3_key, fault, res)
             /\ run' = [run EXCEPT ![p] =
                          IF res.result = "raise" THEN Abort(r, "failed")
                          ELSE [r EXCEPT !.pc = "ddb"]]
             /\ UNCHANGED <<reg, nruns, now>>

\* second half: write the ACTIVITY LIVE item under the version guard
PutActivityLive(p) ==
  LET r == run[p]
      item == ActivityItemAt(r, now)
  IN /\ r.pc = "ddb"
     /\ \E fault \in Faults(r.dry) :
          LET res == DdbPutLive(reg, item, TRUE, r.dry, fault)
          IN /\ reg' = res.table
             /\ last' = LiveCall(p, r, item, TRUE, fault, res)
             /\ run' = [run EXCEPT ![p] =
                          IF res.result = "raise" THEN Abort(r, "failed")
                          ELSE GoActivity(r, r.ai + 1)]
             /\ UNCHANGED <<objs, nruns, now>>

\* _publish run from place r to its end in one piece, no store failing and
\* nobody else writing: where it ends and what it leaves in the stores
RECURSIVE RunOn(_, _, _)
RunOn(r, table, bucket) ==
  CASE r.pc = "unit" ->
         LET found == DiscoverUnitYaml(UnitAt(r))
         IN IF found = <<>>
            THEN [run |-> Abort(r, "died"), reg |-> table, objs |-> bucket]
            ELSE LET item == UnitItem(UnitAt(r), LoadYaml(found[1]), 0)
                     res == DdbPutLive(table, item, FALSE, r.dry, FALSE)
                 IN RunOn(IF UnitAt(r).episodes = <<>> THEN GoUnit(r, r.ui + 1)
                          ELSE GoEpisode(r, 1), res.table, bucket)
    [] r.pc = "episode" ->
         LET found == DiscoverEpisodeYaml(EpisodeAt(r))
         IN IF found = <<>>
            THEN [run |-> Abort(r, "died"), reg |-> table, objs |-> bucket]
            ELSE LET item == EpisodeItem(UnitIdAt(r), EpisodeAt(r), LoadYaml(found[1]), 0)
                     res == DdbPutLive(table, item, FALSE, r.dry, FALSE)
                 IN RunOn(GoActivity(r, 1), res.table, bucket)
    [] r.pc = "s3" ->
         LET res == S3PutJson(bucket, S3KeyAt(r), ManifestAt(r), r.dry, FALSE)
         IN RunOn([r EXCEPT !.pc = "ddb"], table, res.bucket)
    [] r.pc = "ddb" ->
         LET res == DdbPutLive(table, ActivityItemAt(r, 0), TRUE, r.dry, FALSE)
         IN RunOn(GoActivity(r, r.ai + 1), res.table, bucket)
    [] OTHER -> [run |-> r, reg |-> table, objs |-> bucket]

\* a live item without its timestamp
Content(item) == [k \in DOMAIN item \ {"updatedAt"} |-> item[k]]

\* what a completed run has left behind, timestamps aside
Snapshot(r, table, bucket) ==
  [n |-> r.n, tree |-> r.tree,
   reg |-> [k \in DOMAIN table |-> Content(table[k])], objs |-> bucket]

\* at the start of a run of p, snap remembers the run of p that just completed
Remember(p) ==
  snap' = IF run[p].pc = "done" THEN Snapshot(run[p], reg, objs) ELSE NoSnap

\* the live records of a table, timestamps aside
Contents(table) == [k \in DOMAIN table |-> Content(table[k])]

\* at the start of a run of p, hist keeps what the stores hold and, if the run
\* p was in has been cut short by a store failure, that run and what the
\* stores held at its start
Recall(p) ==
  hist' = [begun |-> [reg |-> Contents(reg), objs |-> objs],
           cut |-> IF run[p].pc = "failed"
                   THEN [n |-> run[p].n, tree |-> run[p].tree,
                         reg |-> hist.begun.reg, objs |-> hist.begun.objs]
                   ELSE NoSnap]

(***************************************************************************)
(* Spec: two publisher processes whose store calls interleave freely, all  *)
(* within one reading of the clock.  A run is a publish or a dry run of    *)
(* any of the trees.  The processes are interchangeable, so p2 is started  *)
(* only once p1 has been.                                                  *)
(***************************************************************************)
MayStart(p) == p = "p1" \/ run["p1"].n > 0

\* the <<tree, dry>> pairs a run is started with
Launches == TreeNames \X BOOLEAN

Next ==
  \/ \E p \in Procs : MayStart(p) /\ Start(p, MaxRuns, Launches) /\ UNCHANGED <<snap, hist>>
  \/ \E p \in Procs : PublishUnit(p) /\ UNCHANGED <<snap, hist>>
  \/ \E p \in Procs : PublishEpisode(p) /\ UNCHANGED <<snap, hist>>
  \/ \E p \in Procs : PutManifest(p) /\ UNCHANGED <<snap, hist>>
  \/ \E p \in Procs : PutActivityLive(p) /\ UNCHANGED <<snap, hist>>

Spec == Init /\ [][Next]_vars

(***************************************************************************)
(* SpecSeq: one publisher process that publishes (never dry) again and     *)
(* again while time passes, nobody else publishing.                        *)
(***************************************************************************)
NextSeq ==
  \/ Tick /\ UNCHANGED <<snap, hist>>
  \/ Start("p1", MaxSeqRuns, TreeNames \X {FALSE}) /\ Remember("p1") /\ Recall("p1")
  \/ PublishUnit("p1") /\ UNCHANGED <<snap, hist>>
  \/ PublishEpisode("p1") /\ UNCHANGED <<snap, hist>>
  \/ PutManifest("p1") /\ UNCHANGED <<snap, hist>>
  \/ PutActivityLive("p1") /\ UNCHANGED <<snap, hist>>

SpecSeq == Init /\ [][NextSeq]_vars

(***************************************************************************)
(* SpecIds: two publisher processes, as in Spec, publishing (never dry)    *)
(* the trees whose documents declare their ids in other ways.              *)
(***************************************************************************)
IdLaunches == IdTreeNames \X {FALSE}

NextIds ==
  \/ \E p \in Procs : MayStart(p) /\ Start(p, MaxIdRuns, IdLaunches) /\ UNCHANGED <<snap, hist>>
  \/ \E p \in Procs : PublishUnit(p) /\ UNCHANGED <<snap, hist>>
  \/ \E p \in Procs : PublishEpisode(p) /\ UNCHANGED <<snap, hist>>
  \/ \E p \in Procs : PutManifest(p) /\ UNCHANGED <<snap, hist>>
  \/ \E p \in Procs : PutActivityLive(p) /\ UNCHANGED <<snap, hist>>

SpecIds == Init /\ [][NextIds]_vars

(***************************************************************************)
(* Properties.                                                             *)
(***************************************************************************)
IsActivity(item) == item.entityType = "ACTIVITY_LIVE"

\* the last store call was a putLive that reached the store and was answered
AnsweredPutLive == last.op = "putLive" /\ ~last.dry /\ ~last.fault

\* C1: the version stored in an Activity LiveRecord never decreases, whatever
\* the runs and however their store calls interleave: every step leaves each
\* Activity record in place with a version at least the one it had.
C1_VersionNeverDecreases ==
  [][\A k \in DOMAIN reg :
       IsActivity(reg[k]) =>
         /\ k \in DOMAIN reg'
         /\ IsActivity(reg'[k])
         /\ reg'[k].version >= reg[k].version]_vars

\* C1 witness: a guarded put has raised the version of an existing record
C1_Witness ==
  /\ AnsweredPutLive /\ last.guard /\ last.had /\ last.result = "ok"
  /\ last.prev.version < last.item.version
  /\ reg[last.key].version = last.item.version

\* a run has made, and had answered, the store calls of the activity at
\* place <<ui, ei, ai>> of its tree: it is past that place, or complete
Later(r, ui, ei, ai) ==
  \/ r.ui > ui
  \/ r.ui = ui /\ r.ei > ei
  \/ r.ui = ui /\ r.ei = ei /\ r.ai > ai
HasPut(r, ui, ei, ai) ==
  /\ r.n > 0 /\ ~r.dry
  /\ r.pc = "done" \/ (r.pc \in Running \cup {"died", "failed"} /\ Later(r, ui, ei, ai))

\* the activity u_1/e_1/a_1 is the first of its tree in "v2" (version 2) and
\* in "base" and "reorder" (version 1); its item as each tree's run builds it
ItemA1 ==
  [t \in {"v2", "base", "reorder"} |->
     ActivityItemAt([pc |-> "ddb", tree |-> t, dry |-> FALSE, n |-> 1,
                     ui |-> 1, ei |-> 1, ai |-> 1], 0)]
KeyA1 == ItemKey(ItemA1["v2"])
BothPut(p, q) ==
  /\ p # q
  /\ run[p].tree = "v2" /\ HasPut(run[p], 1, 1, 1)
  /\ run[q].tree \in {"base", "reorder"} /\ HasPut(run[q], 1, 1, 1)

\* C2: once a run carrying version 2 and a run carrying version 1 of the same
\* Activity have both made their guarded putLive for it, in whatever order and
\* interleaving, the live version is 2.
C2_TwoThenOneLeavesTwo ==
  \A p, q \in Procs :
    BothPut(p, q) =>
      /\ ItemA1[run[p].tree].version = 2
      /\ ItemA1[run[q].tree].version = 1
      /\ ItemKey(ItemA1[run[q].tree]) = KeyA1
      /\ KeyA1 \in DOMAIN reg /\ reg[KeyA1].version = 2

\* C2 witness: both have put, the version-1 put coming last and being skipped
C2_Witness ==
  /\ \E p, q \in Procs : BothPut(p, q) /\ last.p = q
  /\ AnsweredPutLive /\ last.key = KeyA1 /\ last.result = "skip"

\* the condition of the guarded put, on what the key held before the call
Accepts(call) == ~call.had \/ call.prev.version <= call.item.version

AnsweredPutImmutable == last.op = "putImmutable" /\ ~last.dry /\ ~last.fault

\* the run p1 has just completed is the second of two runs over one tree, the
\* first of which completed too
SecondRun ==
  /\ snap.n > 0
  /\ run["p1"].n = snap.n + 1
  /\ run["p1"].tree = snap.tree

\* C4: publishing an unchanged tree twice leaves the stores as the first run
\* left them: the same live records with the same content, updatedAt aside,
\* and the same objects with the same bodies.
C4_SecondRunChangesNothing ==
  (SecondRun /\ run["p1"].pc = "done") =>
    /\ DOMAIN reg = DOMAIN snap.reg
    /\ \A k \in DOMAIN reg : Content(reg[k]) = snap.reg[k]
    /\ objs = snap.objs

\* C4 witness: the second run of the full tree is complete and has rewritten
\* a record at a later time
C4_Witness ==
  /\ SecondRun /\ run["p1"].pc = "done" /\ run["p1"].tree = "base"
  /\ \E k \in DOMAIN reg : reg[k].updatedAt > 0 /\ IsActivity(reg[k])
  /\ DOMAIN objs # {}

\* C5 (as claimed): every Activity putLive of the second run over an unchanged
\* tree resolves to Skip.
C5_SecondRunSkips ==
  (SecondRun /\ AnsweredPutLive /\ last.guard /\ last.n = run["p1"].n) =>
    last.result = "skip"

\* C6: a dry run makes no mutating call: each of its steps leaves both stores
\* alone, evaluates no condition, and returns normally from every
\* putImmutable and putLive.
C6_DryRunWritesNothing ==
  [][\A p \in Procs :
       (run[p].dry /\ run[p].pc \in Running /\ run'[p] # run[p]) =>
         /\ reg' = reg /\ objs' = objs
         /\ run'[p].pc # "failed"
         /\ last' # last =>
              /\ last'.p = p /\ last'.dry
              /\ last'.result = "dry" /\ ~last'.conditional]_vars

\* C6 witness: a dry run has logged a guarded put of a version below the one
\* live, and the record stands
C6_Witness ==
  /\ last.op = "putLive" /\ last.dry /\ last.guard /\ last.had
  /\ last.prev.version > last.item.version
  /\ last.result = "dry" /\ reg[last.key] = last.prev

\* C7: an unguarded putLive (Unit, Episode) always succeeds and the record at
\* its key is then the one just written; it never ends in Skip.
C7_UnguardedPutOverwrites ==
  (AnsweredPutLive /\ ~last.guard) =>
    /\ last.item.entityType \in {"UNIT_LIVE", "EPISODE_LIVE"}
    /\ ~last.conditional
    /\ last.result = "ok"
    /\ reg[last.key] = last.item

\* C7 witness: an unguarded put has replaced a record of different content
C7_Witness ==
  /\ AnsweredPutLive /\ ~last.guard /\ last.had
  /\ Content(last.prev) # Content(last.item)
  /\ reg[last.key] = last.item

\* C8 (as claimed): a putImmutable to a key that already holds an object writes
\* the body the key already holds.
C8_ManifestWriteOnce ==
  (AnsweredPutImmutable /\ last.had) => last.item.body = last.prev.body

\* the run is about to look for a Unit or Episode definition document that
\* is not on disk
MissingDoc(r) ==
  \/ r.pc = "unit" /\ UnitAt(r).inDir = <<>> /\ UnitAt(r).sibling = <<>>
  \/ r.pc = "episode" /\ EpisodeAt(r).doc = <<>>

\* process p makes no move and no store call in this step
Still(p) == run'[p] = run[p] /\ (last' = last \/ last'.p # p)

\* C9: a missing Unit or Episode document ends the run at once with exit
\* code 1: the step that detects it writes nothing and undoes nothing, and
\* from then on the run issues no store call and never completes.
C9_MissingDocumentAborts ==
  [][\A p \in Procs :
       /\ (MissingDoc(run[p]) /\ run'[p] # run[p]) =>
            /\ run'[p] = [run[p] EXCEPT !.pc = "died"]
            /\ ExitCode(run'[p]) = 1
            /\ reg' = reg /\ objs' = objs /\ last' = last
       /\ (run[p].pc = "died" /\ run'[p].n = run[p].n) => Still(p)]_vars

\* C9 witness: a run has died at its second episode; the Unit and Episode
\* records it wrote before are in the registry, its last call being one of them
C9_Witness ==
  \E p \in Procs :
    /\ run[p].pc = "died" /\ ~run[p].dry /\ run[p].ei = 2
    /\ last.p = p /\ last.n = run[p].n /\ last.result = "ok"
    /\ last.item.entityType = "EPISODE_LIVE"
    /\ reg[last.key] = last.item
    /\ <<"UNIT#" \o last.item.unitId, "LIVE">> \in DOMAIN reg

\* process p has just made a store call that the store failed
Faulted(p) ==
  /\ run[p].pc \in Running /\ run'[p] # run[p]
  /\ last'.p = p /\ last'.n = run[p].n /\ last'.fault
  /\ last' # last

\* C10: a store failure other than a rejected condition, from an object-store
\* or a live-registry write, aborts the run: nothing is written by the failed
\* call, no later call is issued and the run never completes.
C10_StoreErrorAborts ==
  [][\A p \in Procs :
       /\ Faulted(p) =>
            /\ last'.result = "raise"
            /\ run'[p] = [run[p] EXCEPT !.pc = "failed"]
            /\ ExitCode(run'[p]) = 1
            /\ reg' = reg /\ objs' = objs
       /\ (run[p].pc = "failed" /\ run'[p].n = run[p].n) => Still(p)]_vars

\* C10 witness: a run has failed at the guarded put of its first activity, with
\* a second activity still to publish; the manifest it stored stays
C10_Witness ==
  \E p \in Procs :
    /\ run[p].pc = "failed" /\ run[p].tree = "base" /\ run[p].ai = 1
    /\ last.p = p /\ last.n = run[p].n /\ last.fault /\ last.result = "raise"
    /\ last.op = "putLive" /\ last.guard
    /\ S3KeyAt(run[p]) \in DOMAIN objs

\* the store answers this guarded put with a failed condition: a record with a
\* higher version is live at its key
Rejected(call) ==
  /\ call.op = "putLive" /\ ~call.dry /\ ~call.fault /\ call.guard
  /\ call.had /\ call.prev.version > call.item.version

\* C11: a version-guard Skip is not fatal: the guarded put returns Skip, the
\* run moves to the next activity (or episode, unit, or "publish complete")
\* exactly as after a successful put, and a run whose last put was skipped
\* completes with exit code 0.
C11_SkipIsNotFatal ==
  [][\A p \in Procs :
       (run[p].pc = "ddb" /\ run'[p] # run[p] /\ last'.p = p /\ Rejected(last')) =>
         /\ last'.result = "skip"
         /\ run'[p] = GoActivity(run[p], run[p].ai + 1)
         /\ run'[p].pc \notin {"died", "failed"}
         /\ run'[p].pc = "done" => ExitCode(run'[p]) = 0
         /\ reg' = reg /\ objs' = objs]_vars

\* C11 witness: the guarded put of the first activity of the full tree was
\* skipped and the run has gone on to store the manifest of the second
C11_Witness ==
  \E p \in Procs :
    /\ run[p].tree = "base" /\ run[p].pc = "s3" /\ run[p].ai = 2
    /\ last.p = p /\ last.n = run[p].n /\ Rejected(last) /\ last.result = "skip"
    /\ last.key = KeyA1

\* the run is about to publish a unit that has its document but no episodes
\* folder
NoEpisodes(r) ==
  r.pc = "unit" /\ DiscoverUnitYaml(UnitAt(r)) # <<>> /\ UnitAt(r).episodes = <<>>

\* C12: a unit without an episodes folder still gets its Unit record written,
\* with empty episode id lists; no failure is raised, and the run goes straight
\* to the next unit (or to "publish complete"), so that it issues no Episode or
\* Activity write for the unit.
C12_UnitWithoutEpisodes ==
  [][\A p \in Procs :
       (NoEpisodes(run[p]) /\ ~run[p].dry /\ run'[p] # run[p] /\ ~last'.fault) =>
         /\ last'.p = p /\ last'.n = run[p].n
         /\ last'.op = "putLive" /\ last'.result = "ok"
         /\ last'.item.entityType = "UNIT_LIVE"
         /\ last'.item.episodeIds = <<>> /\ last'.item.episodeFqIds = <<>>
         /\ reg'[last'.key] = last'.item
         /\ objs' = objs
         /\ run'[p] = GoUnit(run[p], run[p].ui + 1)
         /\ run'[p].pc \in {"unit", "done"}]_vars

\* C12 witness: the record of the unit without episodes is in the registry and
\* the run is at the next unit
C12_Witness ==
  \E p \in Procs :
    /\ run[p].tree = "nounit" /\ run[p].pc = "unit" /\ run[p].ui = 2
    /\ last.p = p /\ last.n = run[p].n /\ last.result = "ok"
    /\ last.item.entityType = "UNIT_LIVE" /\ last.item.episodeIds = <<>>
    /\ last.item.episodeFqIds = <<>>
    /\ reg[last.key] = last.item

\* the run p1 has just completed is a second run over the tree of a run that
\* was cut short by a store failure
Rerun ==
  /\ hist.cut.n > 0
  /\ run["p1"].n = hist.cut.n + 1
  /\ run["p1"].tree = hist.cut.tree
  /\ run["p1"].pc = "done"

\* the run r started again from the top of its tree
Restarted(r) == GoUnit([r EXCEPT !.pc = "idle", !.ui = 0, !.ei = 0, !.ai = 0], 1)

\* C13: whatever the stores held before, a run cut short at any of its store
\* calls and followed by a run over the same tree that completes leaves the
\* stores as one uninterrupted run over that tree would have left them,
\* updatedAt aside.
C13_RerunConverges ==
  Rerun =>
    LET whole == RunOn(Restarted(run["p1"]), hist.cut.reg, hist.cut.objs)
    IN /\ whole.run.pc = "done"
       /\ Contents(reg) = Contents(whole.reg)
       /\ objs = whole.objs

\* C13 witness: with version 2 of the first activity live, a run of the full
\* tree was stopped at its second activity and the run after it has completed
C13_Witness ==
  /\ Rerun /\ run["p1"].tree = "base"
  /\ KeyA1 \in DOMAIN hist.cut.reg /\ hist.cut.reg[KeyA1].version = 2
  /\ reg[KeyA1].version = 2
  /\ Cardinality(DOMAIN reg) = 4 /\ Cardinality(DOMAIN objs) = 3

\* the fully-qualified id of an activity
FqId(unit_id, episode_id, activity_id) ==
  unit_id \o SEP \o episode_id \o SEP \o activity_id

\* the manifests whose serialisation is this body
ManifestsOf(body) == {m \in DOMAIN BodyOf : BodyOf[m] = body}

\* C14 (as claimed): every fully-qualified activity id the publisher writes is
\* unitId + SEP + episodeId + SEP + activityId: the activityFqId of a stored
\* manifest, the activityFqid and the key of an Activity record, and the
\* entries of an Episode record's activityFqIds.
C14_FqIdsUseSeparator ==
  /\ AnsweredPutImmutable =>
       \A m \in ManifestsOf(last.item.body) :
         m.activityFqId = FqId(m.unitId, m.episodeId, Str(m.activityId))
  /\ (AnsweredPutLive /\ last.guard) =>
       /\ last.item.activityFqid =
            FqId(last.item.unitId, last.item.episodeId, last.item.activityId)
       /\ last.item.PK = "ACTIVITY#" \o last.item.activityFqid
  /\ (AnsweredPutLive /\ last.item.entityType = "EPISODE_LIVE") =>
       \A i \in DOMAIN last.item.activityFqIds :
         last.item.activityFqIds[i] =
           FqId(last.item.unitId, last.item.episodeId, last.item.activityIds[i])

\* the id components a live record's key is built from
Components(item) ==
  IF item.entityType = "ACTIVITY_LIVE" THEN <<item.unitId, item.episodeId, item.activityId>>
  ELSE IF item.entityType = "EPISODE_LIVE" THEN <<item.unitId, item.episodeId>>
  ELSE <<>>

\* a live record has been written by the last store call
Written == AnsweredPutLive /\ last.result = "ok"

\* no record is written under a key built from a component that holds SEP
NoSepInKeys ==
  Written => \A i \in DOMAIN Components(last.item) : ~HasSep(Components(last.item)[i])

\* a record is only ever written over a record of the same id components
KeysInjective ==
  (Written /\ last.had /\ last.prev.entityType = last.item.entityType) =>
    Components(last.prev) = Components(last.item)

\* C15 (as claimed): an id component that contains SEP is rejected, so that no
\* LiveRecord is written under a key built from such a component and two
\* distinct (unitId, episodeId, activityId) triples never share a key.
C15_SeparatorRejected == NoSepInKeys /\ KeysInjective

\* the run is in the activity loop, at a document whose manifest it has built
InActivity(r) == r.pc \in {"s3", "ddb"}

\* questions with the fields of each in key order
Canonical(questions) == [i \in DOMAIN questions |-> SortItems(questions[i])]

\* two manifests agree on unit, episode and activity id, version and questions
SameFive(m1, m2) ==
  /\ m1.unitId = m2.unitId /\ m1.episodeId = m2.episodeId
  /\ m1.activityId = m2.activityId /\ m1.version = m2.version
  /\ Canonical(m1.questions) = Canonical(m2.questions)

\* C16 (as claimed): the content hash is a function of (unitId, episodeId,
\* activityId, version, questions) alone: two manifests the publisher builds
\* that agree on these have the same hash, whatever their title and locale.
C16_HashOfFiveFields ==
  \A p, q \in Procs :
    (InActivity(run[p]) /\ InActivity(run[q])
       /\ SameFive(ManifestAt(run[p]), ManifestAt(run[q]))) =>
      Sha256Short(ManifestAt(run[p])) = Sha256Short(ManifestAt(run[q]))

\* C17: no run deletes a LiveRecord: every step of every run leaves each key
\* of the live registry in place, so that a record whose unit, episode or
\* activity is gone from the tree outlives the later runs.
C17_NoRecordDeleted == [][DOMAIN reg \subseteq DOMAIN reg']_vars

\* C17 witness: a run of the full tree and then a run of the tree without the
\* activity a_2 have completed, and the record of a_2 is still live
C17_Witness ==
  /\ snap.n > 0 /\ snap.tree = "base" /\ run["p1"].n = snap.n + 1
  /\ run["p1"].tree = "v2" /\ run["p1"].pc = "done"
  /\ <<"ACTIVITY#" \o FqId("u_1", "e_1", "a_2"), "LIVE">> \in DOMAIN reg
  /\ Len(reg[<<"EPISODE#u_1#e_1", "LIVE">>].activityIds) = 1

\* the object a manifest pointer names is in the object store
Resolves(pointer) ==
  \E key \in DOMAIN objs : pointer = "s3://" \o Bucket \o "/" \o key

\* C18: the manifest is stored before the live pointer is written, so in every
\* reachable state, runs cut short included, the manifestS3Key of every
\* Activity record in the registry names an object that is in the object store.
C18_PointerNeverDangles ==
  \A k \in DOMAIN reg : IsActivity(reg[k]) => Resolves(reg[k].manifestS3Key)

\* C18 witness: a run published its first activity and was cut short storing
\* the manifest of the second, which has no record
C18_Witness ==
  \E p \in Procs :
    /\ run[p].tree = "base" /\ run[p].pc = "failed" /\ run[p].ai = 2
    /\ last.p = p /\ last.n = run[p].n /\ last.op = "putImmutable" /\ last.fault
    /\ KeyA1 \in DOMAIN reg /\ Resolves(reg[KeyA1].manifestS3Key)
    /\ <<"ACTIVITY#" \o FqId("u_1", "e_1", "a_2"), "LIVE">> \notin DOMAIN reg
    /\ Cardinality(DOMAIN objs) = 1

\* every run started so far has printed "publish complete"
AllComplete == nruns > 0 /\ \A p \in Procs : run[p].pc \in {"idle", "done"}

Live(kind, fqid) == <<kind \o "#" \o fqid, "LIVE">> \in DOMAIN reg

\* C19 (as claimed): once the runs have completed, every id a Unit record
\* lists in episodeFqIds is the id of an Episode record in the registry and
\* every id an Episode record lists in activityFqIds is the id of an Activity
\* record in the registry, whatever ids the documents declare.
C19_ListedIdsResolve ==
  (AllComplete /\ \A p \in Procs : ~run[p].dry) =>
    \A k \in DOMAIN reg :
      /\ reg[k].entityType = "UNIT_LIVE" =>
           \A i \in DOMAIN reg[k].episodeFqIds : Live("EPISODE", reg[k].episodeFqIds[i])
      /\ reg[k].entityType = "EPISODE_LIVE" =>
           \A i \in DOMAIN reg[k].activityFqIds : Live("ACTIVITY", reg[k].activityFqIds[i])

\* C20 (as claimed): the Activity record a run writes and the manifest it
\* points to agree on the activity's local id, title, version and question
\* count, and the version segment of the manifest key is the record's version,
\* also for documents that omit id or title.
C20_RecordMatchesManifest ==
  (Written /\ last.guard) =>
    \A key \in DOMAIN objs :
      last.item.manifestS3Key = "s3://" \o Bucket \o "/" \o key =>
        \A m \in ManifestsOf(objs[key]) :
          /\ last.item.activityId = m.activityId
          /\ last.item.title = m.title
          /\ last.item.version = m.version
          /\ last.item.totalQuestions = m.total
          /\ key = S3Key(Prefix, last.item.unitId, last.item.episodeId,
                         last.item.activityId, [version |-> last.item.version],
                         Sha256Short(m))

====
